---------------------------- MODULE Spec2Model ----------------------------
(***************************************************************************)
(* feather-sonos: discovery.discover, discovery._discover_ip,              *)
(* discovery.query_zone_group_topology,                                    *)
(* discovery._zone_group_topology_location_to_ip and sonos.Sonos.          *)
(*                                                                         *)
(* A Python str is a sequence of one-character strings; None is the value  *)
(* None below, which is no such sequence.  xmltok tokens are records       *)
(* [type, value, rest]: `rest` is the tuple tail that the code binds with  *)
(* `token, value, *rest = next(tokens)`, <<>> for every token but ATTR.    *)
(* The token stream handed out by xmltok.tokenize is the environment: each *)
(* next(tokens) yields a token of the alphabet (an ATTR token only after a *)
(* START_TAG or ATTR token) or raises StopIteration.                       *)
(***************************************************************************)
EXTENDS Integers, Sequences, FiniteSets, TLC

\* ------------------------------------------------------------------ bounds
MaxTokens == 10      \* length of a stream of any tokens
MaxDocTokens == 14  \* length of a stream that is a topology document
MaxGroups == 2       \* ZoneGroup start-tags in one stream
MaxTimeout == 1      \* largest timeout passed to discover (clock ticks)
MaxPolls == 2        \* recvfrom attempts of one discovery call
MaxLocationTail == 3 \* characters of a Location after its scheme prefix
MaxMetaTokens == 5   \* length of a metadata token stream
MaxArgs == 2         \* arguments of a SOAP response

\* ------------------------------------------------------------ Python values
None == <<"None">>
Truthy(v) == v # None /\ v # <<>>

StartsWith(s, prefix) ==
    Len(s) >= Len(prefix) /\ SubSeq(s, 1, Len(prefix)) = prefix

\* str.find(c): 0-based index of the first occurrence, -1 when there is none
Find(s, c) ==
    IF \E i \in 1..Len(s) : s[i] = c
    THEN (CHOOSE i \in 1..Len(s) : s[i] = c /\ \A j \in 1..(i - 1) : s[j] # c) - 1
    ELSE -1

\* s[:stop], with Python's meaning of a negative stop
SliceTo(s, stop) ==
    IF stop >= 0
    THEN SubSeq(s, 1, IF stop < Len(s) THEN stop ELSE Len(s))
    ELSE SubSeq(s, 1, IF Len(s) + stop > 0 THEN Len(s) + stop ELSE 0)

\* s[start:]
SliceFrom(s, start) == SubSeq(s, start + 1, Len(s))

\* ------------------------------------------------------- location -> ip
scheme_prefix == <<"h", "t", "t", "p", ":", "/", "/">>

AssertionError == <<"AssertionError">>

\* a plausible slip: the slice keeps the colon
LocationToIpKeepsColon(location) ==
    IF ~StartsWith(location, scheme_prefix)
    THEN AssertionError
    ELSE LET loc == SliceFrom(location, Len(scheme_prefix))
             port_idx == Find(loc, ":")
         IN  SliceTo(loc, port_idx + 1)

_zone_group_topology_location_to_ip(location) ==
    IF ~StartsWith(location, scheme_prefix)
    THEN AssertionError
    ELSE LET loc == SliceFrom(location, Len(scheme_prefix))
             port_idx == Find(loc, ":")
         IN  SliceTo(loc, port_idx)

\* ------------------------------------------------------------------ tokens
Tok(type, value, rest) == [type |-> type, value |-> value, rest |-> rest]
NoToken == Tok("unbound", "", <<>>)

UuidA == <<"A">>
UuidB == <<"B">>
UUIDs == {UuidA, UuidB}
ZoneNames == {<<"K">>, <<>>}
LocGood == scheme_prefix \o <<"1", ":", "4", "/">>
LocGood2 == scheme_prefix \o <<"2", "2", ":", "4">>
LocBad == <<"f", "t", "p", ":", "/", "/", "1", ":", "4">>
Locations == {LocGood, LocGood2, LocBad}

StartZoneGroup == Tok("START_TAG", "ZoneGroup", <<>>)
EndZoneGroup == Tok("END_TAG", "ZoneGroup", <<>>)
StartMember == Tok("START_TAG", "ZoneGroupMember", <<>>)
EndMember == Tok("END_TAG", "ZoneGroupMember", <<>>)
StartRoot == Tok("START_TAG", "ZoneGroups", <<>>)
AttrCoordinator(u) == Tok("ATTR", "Coordinator", <<u>>)
AttrUUID(u) == Tok("ATTR", "UUID", <<u>>)
AttrZoneName(n) == Tok("ATTR", "ZoneName", <<n>>)
AttrLocation(l) == Tok("ATTR", "Location", <<l>>)
AttrID == Tok("ATTR", "ID", <<<<"7">>>>)

Tokens ==
    {StartZoneGroup, EndZoneGroup, StartMember, EndMember, StartRoot, AttrID}
    \cup {AttrCoordinator(u) : u \in UUIDs}
    \cup {AttrUUID(u) : u \in UUIDs}
    \cup {AttrZoneName(n) : n \in ZoneNames}
    \cup {AttrLocation(l) : l \in Locations}

\* ------------------------------------------------------------ Python dict
\* an insertion-ordered dict keyed on uuid: a sequence of [uuid, name, ip]
DictKeys(d) == {d[i].uuid : i \in 1..Len(d)}

DictSet(d, rec) ==
    IF rec.uuid \in DictKeys(d)
    THEN [i \in 1..Len(d) |-> IF d[i].uuid = rec.uuid THEN rec ELSE d[i]]
    ELSE Append(d, rec)

\* ----------------------------------------- query_zone_group_topology
\* The frame of the scan.  pc names the next(tokens) call the scan is about
\* to make: "first" (line 124), "seek_group" (130), "seek_coordinator" (135),
\* "scan_members" (140), "collect_attrs" (148); or "returned" / "raised".
InitScan ==
    [pc |-> "first", token |-> NoToken, coordinator_uuid |-> None,
     players |-> <<>>, player_uuid |-> None, player_name |-> None,
     player_ip |-> None, coordinators |-> <<>>, error |-> None]

IsTag(t, type, name) == t.type = type /\ t.value = name

Raise(s, exc) == [s EXCEPT !.pc = "raised", !.error = exc]

\* line 126-129: top of `while True` with the current token
LoopTop(s) ==
    LET s1 == [s EXCEPT !.coordinator_uuid = None]
    IN  IF IsTag(s1.token, "START_TAG", "ZoneGroup")
        THEN [s1 EXCEPT !.pc = "seek_coordinator"]
        ELSE [s1 EXCEPT !.pc = "seek_group"]

\* line 124
FirstToken(s, t) == LoopTop([s EXCEPT !.token = t])

\* lines 129-130
SeekGroupToken(s, t) ==
    IF IsTag(t, "START_TAG", "ZoneGroup")
    THEN [s EXCEPT !.token = t, !.pc = "seek_coordinator"]
    ELSE [s EXCEPT !.token = t]

\* lines 134-138
SeekCoordinatorToken(s, t) ==
    IF IsTag(t, "ATTR", "Coordinator")
    THEN [s EXCEPT !.token = t, !.coordinator_uuid = t.rest[1],
                   !.players = <<>>, !.pc = "scan_members"]
    ELSE [s EXCEPT !.token = t]

\* lines 139, 163-167: the loop condition of the member scan and what follows
\* the loop
AfterMemberStep(s) ==
    IF IsTag(s.token, "END_TAG", "ZoneGroup")
    THEN LoopTop([s EXCEPT !.coordinators =
                     Append(@, [coordinator_uuid |-> s.coordinator_uuid,
                                players |-> s.players])])
    ELSE [s EXCEPT !.pc = "scan_members"]

\* lines 140-146
ScanMembersToken(s, t) ==
    IF IsTag(t, "START_TAG", "ZoneGroupMember")
    THEN [s EXCEPT !.token = t, !.player_uuid = None, !.player_name = None,
                   !.player_ip = None, !.pc = "collect_attrs"]
    ELSE AfterMemberStep([s EXCEPT !.token = t])

\* line 147, 157-161: the loop condition of the attribute collection
AfterAttr(s) ==
    IF Truthy(s.player_uuid) /\ Truthy(s.player_name) /\ Truthy(s.player_ip)
    THEN AfterMemberStep([s EXCEPT !.players =
                             DictSet(@, [uuid |-> s.player_uuid,
                                         name |-> s.player_name,
                                         ip |-> s.player_ip])])
    ELSE [s EXCEPT !.pc = "collect_attrs"]

\* a plausible slip: a UUID attribute starts the member over
CollectAttrsTokenResets(s, t) ==
    LET s1 == [s EXCEPT !.token = t]
    IN  IF t.type # "ATTR" THEN AfterAttr(s1)
        ELSE IF t.value = "UUID"
        THEN AfterAttr([s1 EXCEPT !.player_uuid = t.rest[1],
                                  !.player_name = None])
        ELSE IF t.value = "ZoneName"
        THEN AfterAttr([s1 EXCEPT !.player_name = t.rest[1]])
        ELSE IF t.value = "Location"
        THEN LET ip == _zone_group_topology_location_to_ip(t.rest[1])
             IN  IF ip = AssertionError THEN Raise(s1, "AssertionError")
                 ELSE AfterAttr([s1 EXCEPT !.player_ip = ip])
        ELSE AfterAttr(s1)

\* lines 148-156
CollectAttrsToken(s, t) ==
    LET s1 == [s EXCEPT !.token = t]
    IN  IF t.type # "ATTR" THEN AfterAttr(s1)
        ELSE IF t.value = "UUID"
        THEN AfterAttr([s1 EXCEPT !.player_uuid = t.rest[1]])
        ELSE IF t.value = "ZoneName"
        THEN AfterAttr([s1 EXCEPT !.player_name = t.rest[1]])
        ELSE IF t.value = "Location"
        THEN LET ip == _zone_group_topology_location_to_ip(t.rest[1])
             IN  IF ip = AssertionError THEN Raise(s1, "AssertionError")
                 ELSE AfterAttr([s1 EXCEPT !.player_ip = ip])
        ELSE AfterAttr(s1)

\* a plausible slip: the StopIteration is swallowed and the loop goes on
StopIterationRetried(s) == s

\* a plausible slip: every next(tokens) is wrapped in the try of line 128
StopIterationAlwaysCaught(s) == [s EXCEPT !.pc = "returned"]

\* next(tokens) raises StopIteration: caught only by the try of lines 128-132
StopIteration(s) ==
    IF s.pc = "seek_group"
    THEN [s EXCEPT !.pc = "returned"]
    ELSE Raise(s, "StopIteration")

Running(s) == s.pc \notin {"returned", "raised"}

\* one next(tokens) that yields t
ScanToken(s, t) ==
    CASE s.pc = "first" -> FirstToken(s, t)
      [] s.pc = "seek_group" -> SeekGroupToken(s, t)
      [] s.pc = "seek_coordinator" -> SeekCoordinatorToken(s, t)
      [] s.pc = "scan_members" -> ScanMembersToken(s, t)
      [] s.pc = "collect_attrs" -> CollectAttrsToken(s, t)
      [] OTHER -> s

RECURSIVE ScanTokens(_, _)
ScanTokens(s, ts) ==
    IF ts = <<>> THEN s ELSE ScanTokens(ScanToken(s, Head(ts)), Tail(ts))

\* ----------------------------------------------------- the token stream
\* What the stream has yielded so far, as far as the properties of
\* query_zone_group_topology need it:
\*   ended                      next(tokens) has raised StopIteration
\*   startTags, endTags         ZoneGroup start-tags and end-tags yielded
\*   inGroup                    a ZoneGroup start-tag with no ZoneGroup end-tag since
\*   grpOpen, grpCoord          inside a ZoneGroup element; a Coordinator
\*                              attribute has followed its start-tag
\*   groupNoCoord               some ZoneGroup ended with no Coordinator attribute
\*   memOpen, memSeen           a member has started in the open group, after
\*                              the group's Coordinator attribute; which of
\*                              its three attributes have followed
\*   memberCut                  some member met the group's end-tag or the next
\*                              member with one of its three attributes unseen
\*   ok, st, seen, groups       the stream so far is a prefix of a well-formed
\*                              topology document (see DocToken); its groups'
\*                              member UUIDs in document order
\*   permuted                   some member's attributes came in another order
\*                              than UUID, ZoneName, Location
MemberAttrs == {"UUID", "ZoneName", "Location"}

InitHist ==
    [ended |-> FALSE, startTags |-> 0, endTags |-> 0, inGroup |-> FALSE,
     grpOpen |-> FALSE, grpCoord |-> FALSE, groupNoCoord |-> FALSE,
     memOpen |-> FALSE, memSeen |-> {}, memberCut |-> FALSE,
     ok |-> TRUE, st |-> "top", seen |-> {}, groups |-> <<>>,
     permuted |-> FALSE]

DeclaredUUIDs(h) ==
    UNION {{h.groups[i][j] : j \in 1..Len(h.groups[i])} : i \in 1..Len(h.groups)}

\* The well-formed topology documents:
\*   top:   <ZoneGroups ID=..> ( <ZoneGroup ID=.. Coordinator=.. ID=..> member* </ZoneGroup> )*
\*   member: <ZoneGroupMember with UUID, ZoneName and an http:// Location, each
\*            once, in any order, ID attributes between them /> , the end-tag
\*            of the self-closing element yielded or not; UUIDs distinct
DocToken(h, t) ==
    LET bad == [h EXCEPT !.ok = FALSE, !.st = "top", !.seen = {}, !.groups = <<>>]
        complete == h.seen = MemberAttrs
    IN  IF ~h.ok THEN h
        ELSE IF h.st = "top" THEN
            IF t = StartRoot \/ t = AttrID THEN h
            ELSE IF t = StartZoneGroup
            THEN [h EXCEPT !.st = "gtag", !.groups = Append(@, <<>>)]
            ELSE bad
        ELSE IF h.st = "gtag" THEN
            IF t = AttrID THEN h
            ELSE IF IsTag(t, "ATTR", "Coordinator") THEN [h EXCEPT !.st = "gbody"]
            ELSE bad
        ELSE IF h.st = "gbody" THEN
            IF t = AttrID THEN h
            ELSE IF t = StartMember THEN [h EXCEPT !.st = "mtag", !.seen = {}]
            ELSE IF t = EndZoneGroup THEN [h EXCEPT !.st = "top"]
            ELSE bad
        ELSE \* "mtag"
            IF t = AttrID THEN h
            ELSE IF t.type = "ATTR" /\ t.value \in MemberAttrs \ h.seen THEN
                IF t.value = "UUID" THEN
                    IF t.rest[1] \in DeclaredUUIDs(h) THEN bad
                    ELSE [h EXCEPT !.seen = @ \cup {"UUID"},
                                   !.groups[Len(h.groups)] = Append(@, t.rest[1])]
                ELSE IF t.value = "Location" /\ ~StartsWith(t.rest[1], scheme_prefix)
                THEN bad
                ELSE [h EXCEPT !.seen = @ \cup {t.value}]
            ELSE IF complete /\ t = EndMember THEN [h EXCEPT !.st = "gbody"]
            ELSE IF complete /\ t = StartMember THEN [h EXCEPT !.seen = {}]
            ELSE IF complete /\ t = EndZoneGroup THEN [h EXCEPT !.st = "top"]
            ELSE bad

GroupToken(h, t) ==
    IF t = StartZoneGroup
    THEN [h EXCEPT !.startTags = @ + 1, !.inGroup = TRUE, !.grpOpen = TRUE,
                   !.grpCoord = FALSE, !.memOpen = FALSE, !.memSeen = {}]
    ELSE IF t = EndZoneGroup
    THEN [h EXCEPT !.endTags = @ + 1, !.inGroup = FALSE, !.grpOpen = FALSE,
                   !.groupNoCoord = @ \/ (h.grpOpen /\ ~h.grpCoord),
                   !.memberCut = @ \/ (h.memOpen /\ h.memSeen # MemberAttrs),
                   !.memOpen = FALSE, !.memSeen = {}]
    ELSE IF IsTag(t, "ATTR", "Coordinator")
    THEN [h EXCEPT !.grpCoord = @ \/ h.grpOpen]
    ELSE IF t = StartMember
    THEN [h EXCEPT !.memberCut = @ \/ (h.memOpen /\ h.memSeen # MemberAttrs),
                   !.memOpen = h.grpOpen /\ h.grpCoord, !.memSeen = {}]
    ELSE IF t.type = "ATTR" /\ t.value \in MemberAttrs /\ h.memOpen
    THEN [h EXCEPT !.memSeen = @ \cup {t.value}]
    ELSE h

HistToken(h, t) == GroupToken(DocToken(h, t), t)

\* a ZoneGroupMember element whose three attributes come in the order perm
Perms == {p \in [1..3 -> 1..3] : \A i, j \in 1..3 : p[i] = p[j] => i = j}
Identity == [i \in 1..3 |-> i]
MemberAttrTokens(u, n, l) == <<AttrUUID(u), AttrZoneName(n), AttrLocation(l)>>
Permuted(ts, p) == [i \in 1..3 |-> ts[p[i]]]

\* ------------------------------------------------------- sonos.TrackInfo
\* Texts and duration strings are opaque to TrackInfo: TLA+ strings here.  A
\* tag's value is written ns:name for xmltok's (ns, name).  An attribute the
\* object does not have is Absent (reading it raises AttributeError).
Absent == "<absent>"
NoAttrib == "None"

TagCreator == Tok("START_TAG", "dc:creator", <<>>)
TagAlbum == Tok("START_TAG", "upnp:album", <<>>)
TagTitle == Tok("START_TAG", "dc:title", <<>>)
TagItem == Tok("START_TAG", "item", <<>>)
EndTitle == Tok("END_TAG", "dc:title", <<>>)
EndItem == Tok("END_TAG", "item", <<>>)
AttrItemId == Tok("ATTR", "id", <<<<"7">>>>)
Text(s) == Tok("TEXT", s, <<>>)
Texts == {"Song A", "Artist B"}
Durations == {"0:03:30", "0:01:02"}

MetaTokens ==
    {TagCreator, TagAlbum, TagTitle, TagItem, EndTitle, EndItem, AttrItemId}
    \cup {Text(s) : s \in Texts}

\* a plausible slip: two values of the table are exchanged
TagsOfInterestExchanged(value) ==
    CASE value = "dc:creator" -> "album"
      [] value = "upnp:album" -> "artist"
      [] value = "dc:title" -> "title"
      [] OTHER -> NoAttrib

\* lines 28-32 and dict.get of line 37
tags_of_interest(value) ==
    CASE value = "dc:creator" -> "artist"
      [] value = "upnp:album" -> "album"
      [] value = "dc:title" -> "title"
      [] OTHER -> NoAttrib

\* the attributes of a TrackInfo object
NewTrackInfo ==
    [artist |-> Absent, album |-> Absent, title |-> Absent,
     total_time |-> Absent, current_time |-> Absent]

\* setattr(self, attrib, value)
setattr(self, attrib, value) == [self EXCEPT ![attrib] = value]

\* getattr(self, attrib, default)
getattr(self, attrib, default) ==
    IF self[attrib] = Absent THEN default ELSE self[attrib]

\* The frame of TrackInfo(metadata, total_time, current_time).  pc names the
\* statement it is about to run: "init" (lines 22-23), "first" (the next of
\* line 34), "text" (the next of line 41), "next" (the next of line 45); or
\* "done" (the object is returned) / "raised".
NoTrack ==
    [pc |-> "unbound", token |-> NoToken, attrib |-> NoAttrib,
     self |-> NewTrackInfo, total_time |-> Absent, current_time |-> Absent,
     error |-> "None", repr |-> None]

InitTrack(total_time, current_time) ==
    [pc |-> "init", token |-> NoToken, attrib |-> NoAttrib,
     self |-> NewTrackInfo, total_time |-> total_time,
     current_time |-> current_time, error |-> "None", repr |-> None]

\* lines 22-24
TrackInit(s) ==
    [s EXCEPT !.self.total_time = s.total_time,
              !.self.current_time = s.current_time,
              !.pc = "first"]

\* lines 36-38: top of `while True` with the current token
TrackLoopTop(s) ==
    IF s.token.type = "START_TAG" /\ tags_of_interest(s.token.value) # NoAttrib
    THEN [s EXCEPT !.attrib = tags_of_interest(s.token.value), !.pc = "text"]
    ELSE [s EXCEPT !.pc = "next"]

\* line 34, or line 45 with a token
TrackNextToken(s, t) == TrackLoopTop([s EXCEPT !.token = t])

\* a plausible slip: the assert of line 42 is missing
TrackTextTokenUnchecked(s, t) ==
    [s EXCEPT !.token = t, !.self = setattr(@, s.attrib, t.value),
              !.pc = "next"]

\* lines 41-43
TrackTextToken(s, t) ==
    IF t.type # "TEXT"
    THEN [s EXCEPT !.token = t, !.pc = "raised", !.error = "AssertionError"]
    ELSE [s EXCEPT !.token = t, !.self = setattr(@, s.attrib, t.value),
                   !.pc = "next"]

\* next(tokens) raises StopIteration: caught only by the try of lines 44-47
TrackStopIteration(s) ==
    IF s.pc = "next"
    THEN [s EXCEPT !.pc = "done"]
    ELSE [s EXCEPT !.pc = "raised", !.error = "StopIteration"]

\* lines 49-54: the values __repr__ formats into its string, or the
\* AttributeError of reading an attribute the object does not have
AttributeError == <<"AttributeError">>

ReprOf(self) ==
    IF self.title = Absent \/ self.current_time = Absent
                           \/ self.total_time = Absent
    THEN AttributeError
    ELSE <<getattr(self, "artist", "unknown"), getattr(self, "album", "unknown"),
           self.title, self.current_time, self.total_time>>

\* What the metadata stream has yielded so far, as far as the properties of
\* TrackInfo need it:
\*   ended        next(tokens) has raised StopIteration
\*   count        tokens yielded
\*   after        the field of the recognized start-tag that was the last
\*                token yielded, NoAttrib when the last token was none
\*   text         per field, the text token that last followed its start-tag
\*   occurs       the fields whose start-tag was yielded
\*   leaf         every recognized start-tag so far was followed by a text
\*                token (or is the last token so far)
\*   cut          the stream ended right after a recognized start-tag
FieldOfTag(t) ==
    IF t = TagCreator THEN "artist"
    ELSE IF t = TagAlbum THEN "album"
    ELSE IF t = TagTitle THEN "title"
    ELSE NoAttrib

InitMetaHist ==
    [ended |-> FALSE, count |-> 0, after |-> NoAttrib,
     text |-> [artist |-> Absent, album |-> Absent, title |-> Absent],
     occurs |-> {}, leaf |-> TRUE, cut |-> FALSE]

MetaHistToken(h, t) ==
    LET h1 == IF h.after = NoAttrib THEN h
              ELSE IF t.type = "TEXT" THEN [h EXCEPT !.text[h.after] = t.value]
              ELSE [h EXCEPT !.leaf = FALSE]
        field == FieldOfTag(t)
    IN  [h1 EXCEPT !.count = @ + 1, !.after = field,
                   !.occurs = IF field = NoAttrib THEN @ ELSE @ \cup {field}]

MetaHistEnd(h) ==
    [h EXCEPT !.ended = TRUE, !.cut = (h.after # NoAttrib)]

\* ------------------------------------------------- parse_upnp_response
\* The decoder of a SOAP response (upnp.py, spec section 4.2).  A response is
\* [action, args, body, tokens]: the token stream `tokens` of the envelope of
\* test_sonos.py for `action`, whose body is the action's Response element
\* with the (name, value) pairs `args` as children ("response") or a SOAP
\* Fault ("fault"), whole or cut short.
NoResponse == [action |-> "None", args |-> <<>>, body |-> "None", tokens |-> <<>>]

Actions == {"Pause"}
ArgNames == {"arg1", "arg2"}
ArgValues == {"value1", "value2", ""}
Arguments == {<<n, v>> : n \in ArgNames, v \in ArgValues}

response_tag(action) == "u:" \o action \o "Response"

\* argument_temlate: '<{name}>{value}</{name}>'; xmltok yields no TEXT token
\* for an empty text
ArgumentTokens(arg) ==
    <<Tok("START_TAG", arg[1], <<>>)>>
    \o (IF arg[2] = "" THEN <<>> ELSE <<Tok("TEXT", arg[2], <<>>)>>)
    \o <<Tok("END_TAG", arg[1], <<>>)>>

RECURSIVE ArgsTokens(_)
ArgsTokens(args) ==
    IF args = <<>> THEN <<>>
    ELSE ArgumentTokens(Head(args)) \o ArgsTokens(Tail(args))

\* soap_response_template
EnvelopeHead ==
    <<Tok("PI", "xml", <<>>), Tok("ATTR", "version", <<<<"1">>>>),
      Tok("START_TAG", "s:Envelope", <<>>), Tok("ATTR", "xmlns:s", <<<<"e">>>>),
      Tok("ATTR", "s:encodingStyle", <<<<"e">>>>),
      Tok("START_TAG", "s:Body", <<>>)>>
EnvelopeTail ==
    <<Tok("END_TAG", "s:Body", <<>>), Tok("END_TAG", "s:Envelope", <<>>)>>

SoapResponse(action, args) ==
    EnvelopeHead
    \o <<Tok("START_TAG", response_tag(action), <<>>),
         Tok("ATTR", "xmlns:u", <<<<"u">>>>)>>
    \o ArgsTokens(args)
    \o <<Tok("END_TAG", response_tag(action), <<>>)>>
    \o EnvelopeTail

SoapFault ==
    EnvelopeHead
    \o <<Tok("START_TAG", "s:Fault", <<>>), Tok("START_TAG", "faultcode", <<>>),
         Tok("TEXT", "s:Client", <<>>), Tok("END_TAG", "faultcode", <<>>),
         Tok("END_TAG", "s:Fault", <<>>)>>
    \o EnvelopeTail

\* The decoder's frame: pc is "seek" (before the Response start-tag) or
\* "args" (inside the Response element); argument is the child element whose
\* text is awaited, NoAttrib when there is none.
InitDecode == [pc |-> "seek", argument |-> NoAttrib, arguments |-> <<>>]

Decoded(status, arguments) == [status |-> status, arguments |-> arguments]

DecodeToken(action, s, t) ==
    IF s.pc = "seek"
    THEN IF IsTag(t, "START_TAG", response_tag(action))
         THEN [s EXCEPT !.pc = "args"]
         ELSE IF IsTag(t, "START_TAG", "s:Fault")
         THEN [s EXCEPT !.pc = "fault"]
         ELSE s
    ELSE IF t.type = "START_TAG" THEN [s EXCEPT !.argument = t.value]
    ELSE IF t.type = "TEXT" /\ s.argument # NoAttrib
    THEN [s EXCEPT !.arguments = Append(@, <<s.argument, t.value>>),
                   !.argument = NoAttrib]
    ELSE IF IsTag(t, "END_TAG", response_tag(action))
    THEN [s EXCEPT !.pc = "returned"]
    ELSE IF t.type = "END_TAG" /\ s.argument = t.value
    THEN [s EXCEPT !.arguments = Append(@, <<s.argument, "">>),
                   !.argument = NoAttrib]
    ELSE s

RECURSIVE Decode(_, _, _)
Decode(action, s, tokens) ==
    IF s.pc = "returned" THEN Decoded("ok", s.arguments)
    ELSE IF s.pc = "fault" THEN Decoded("ProtocolFault", <<>>)
    ELSE IF tokens = <<>> THEN Decoded("StopIteration", <<>>)
    ELSE Decode(action, DecodeToken(action, s, Head(tokens)), Tail(tokens))

\* a plausible slip: the pairs are collected into a mapping keyed on the name
RECURSIVE AsMapping(_)
AsMapping(args) ==
    IF args = <<>> THEN <<>>
    ELSE LET rest == AsMapping(SubSeq(args, 1, Len(args) - 1))
             last == args[Len(args)]
         IN  IF \E i \in 1..Len(rest) : rest[i][1] = last[1]
             THEN [i \in 1..Len(rest) |->
                      IF rest[i][1] = last[1] THEN last ELSE rest[i]]
             ELSE Append(rest, last)

ParseUpnpResponseAsMapping(action, tokens) ==
    LET d == Decode(action, InitDecode, tokens)
    IN  Decoded(d.status, AsMapping(d.arguments))

parse_upnp_response(action, tokens) == Decode(action, InitDecode, tokens)

\* ------------------------------------------------------------------ state
SearchSends == 3

\* one recvfrom call of line 45: kind is "nodata" (OSError ETIMEDOUT or
\* EAGAIN), "error" (another OSError), "marker" (a datagram with b'Sonos' in
\* it, from sender) or "other" (another datagram)
Received(kind, sender) == [kind |-> kind, ip |-> sender]

Ip1 == <<"1">>
Ip2 == <<"2">>
SenderIPs == {Ip1, Ip2}

VARIABLES
    dpc,          \* where the generator discover() stands
    timeout,      \* discover's parameter, in clock ticks
    now,          \* time.time()
    sock,         \* the socket of _discover_ip: "unbound", "open"
    sent,         \* sendto calls made
    end_time,     \* _discover_ip's deadline (start_time is 0)
    polls,        \* recvfrom calls the running _discover_ip has made
    ip,           \* what _discover_ip returned
    error,        \* the exception that left discover()
    commands,     \* GetZoneGroupState commands issued
    scan,         \* the frame of query_zone_group_topology
    twin,         \* the same scan over the stream with every member's
                  \* attributes in the order UUID, ZoneName, Location
    pending,      \* attributes of the current member the stream yields next
    pulled,       \* tokens the stream has yielded
    hist,         \* what the stream has yielded so far
    topology,     \* what query_zone_group_topology returned
    gi,           \* groups of topology the for loop of line 66 has taken
    heap,         \* the Sonos objects: heap[id] = [uuid, ip, name, other_players]
    players,      \* discover's dict of line 68: a sequence of [uuid, id]
    coordinator,  \* id of the Sonos object of line 72, 0 when unbound
    pi,           \* players the for loop of line 73 has taken
    yielded,      \* ids of the Sonos objects handed to the caller, in order
    input,        \* what the token stream is: "document", "tokens", "member"
    location,     \* argument of _zone_group_topology_location_to_ip called
                  \* on its own
    location_ip,  \* what that call returned
    recvlog,      \* what the recvfrom calls of the running _discover_ip gave
    track,        \* the frame of sonos.TrackInfo(...) called on its own
    meta,         \* what the metadata token stream has yielded so far
    response,     \* the SOAP response handed to parse_upnp_response
    arguments     \* what parse_upnp_response returned

discoveryVars ==
    <<timeout, now, sock, sent, end_time, polls, ip, commands, recvlog>>
streamVars == <<scan, twin, pending, pulled, hist>>
groupVars == <<topology, gi, heap, players, coordinator, pi, yielded>>
callVars == <<input, location, location_ip, track, meta, response, arguments>>
vars == <<dpc, error, discoveryVars, streamVars, groupVars, callVars>>

Init ==
    /\ dpc = "created"
    /\ timeout \in 0..MaxTimeout
    /\ now = 0
    /\ sock = "unbound"
    /\ sent = 0
    /\ end_time = 0
    /\ polls = 0
    /\ ip = None
    /\ error = None
    /\ commands = 0
    /\ scan = InitScan
    /\ twin = InitScan
    /\ pending = <<>>
    /\ pulled = 0
    /\ hist = InitHist
    /\ topology = <<>>
    /\ gi = 0
    /\ heap = <<>>
    /\ players = <<>>
    /\ coordinator = 0
    /\ pi = 0
    /\ yielded = <<>>
    /\ input = "document"
    /\ location = None
    /\ location_ip = None
    /\ recvlog = <<>>
    /\ track = NoTrack
    /\ meta = InitMetaHist
    /\ response = NoResponse
    /\ arguments = None

\* ------------------------------------------------------------- the caller
\* next() on the generator: runs the body from its start, or from the yield
CallerNext ==
    /\ dpc \in {"created", "suspended"}
    /\ dpc' = IF dpc = "created" THEN "socket" ELSE "for_group"
    /\ UNCHANGED <<callVars, error, discoveryVars, streamVars, groupVars>>

\* ------------------------------------------------------------ _discover_ip
\* lines 33-34
OpenSocket ==
    /\ dpc = "socket"
    /\ sock' = "open"
    /\ dpc' = "sendto"
    /\ UNCHANGED <<callVars, recvlog, error, timeout, now, sent, end_time, polls, ip, commands,
                   streamVars, groupVars>>

\* lines 36-37
SendSearch ==
    /\ dpc = "sendto"
    /\ sent < SearchSends
    /\ sent' = sent + 1
    /\ UNCHANGED <<callVars, recvlog, dpc, error, timeout, now, sock, end_time, polls, ip, commands,
                   streamVars, groupVars>>

\* lines 39-40
ReadStartTime ==
    /\ dpc = "sendto"
    /\ sent = SearchSends
    /\ end_time' = now + timeout
    /\ dpc' = "poll"
    /\ UNCHANGED <<callVars, recvlog, error, timeout, now, sock, sent, polls, ip, commands,
                   streamVars, groupVars>>

\* the clock advances while the loop polls
Tick ==
    /\ dpc \in {"poll", "recv"}
    /\ now < end_time
    /\ now' = now + 1
    /\ UNCHANGED <<callVars, recvlog, dpc, error, timeout, sock, sent, end_time, polls, ip, commands,
                   streamVars, groupVars>>

\* a plausible slip: the deadline itself is still inside the search
DeadlineReachedLate == now > end_time

\* line 42
DeadlineReached == now >= end_time

\* lines 42-43, and the return of None that ends the function
CheckDeadline ==
    /\ dpc = "poll"
    /\ IF DeadlineReached
       THEN ip' = None /\ dpc' = "assert" /\ polls' = 0
       ELSE ip' = ip /\ dpc' = "recv" /\ polls' = polls
    /\ UNCHANGED <<callVars, recvlog, error, timeout, now, sock, sent, end_time, commands,
                   streamVars, groupVars>>

\* a plausible slip: every OSError of recvfrom is raised again
RecvNoDataRaises ==
    /\ dpc = "recv"
    /\ polls < MaxPolls
    /\ polls' = 0
    /\ recvlog' = Append(recvlog, Received("nodata", None))
    /\ error' = "OSError"
    /\ dpc' = "raised"
    /\ UNCHANGED <<callVars, timeout, now, sock, sent, end_time, ip, commands,
                   streamVars, groupVars>>

\* lines 45-49: recvfrom raises OSError ETIMEDOUT or EAGAIN
RecvNoData ==
    /\ dpc = "recv"
    /\ polls < MaxPolls
    /\ polls' = polls + 1
    /\ recvlog' = Append(recvlog, Received("nodata", None))
    /\ dpc' = "poll"
    /\ UNCHANGED <<callVars, error, timeout, now, sock, sent, end_time, ip, commands,
                   streamVars, groupVars>>

\* lines 45-49: recvfrom raises another OSError, which leaves discover()
RecvSocketError ==
    /\ dpc = "recv"
    /\ polls < MaxPolls
    /\ polls' = 0
    /\ recvlog' = Append(recvlog, Received("error", None))
    /\ error' = "OSError"
    /\ dpc' = "raised"
    /\ UNCHANGED <<callVars, timeout, now, sock, sent, end_time, ip, commands,
                   streamVars, groupVars>>

\* lines 45, 51-52: a datagram with b'Sonos' in it
RecvMarker ==
    /\ dpc = "recv"
    /\ polls < MaxPolls
    /\ polls' = 0
    /\ \E sender \in SenderIPs :
          /\ ip' = sender
          /\ recvlog' = Append(recvlog, Received("marker", sender))
    /\ dpc' = "assert"
    /\ UNCHANGED <<callVars, error, timeout, now, sock, sent, end_time, commands,
                   streamVars, groupVars>>

\* a plausible slip: a datagram without the marker ends the search
RecvOtherReturns ==
    /\ dpc = "recv"
    /\ polls < MaxPolls
    /\ polls' = 0
    /\ recvlog' = Append(recvlog, Received("other", None))
    /\ dpc' = "assert"
    /\ UNCHANGED <<callVars, error, timeout, now, sock, sent, end_time, ip, commands,
                   streamVars, groupVars>>

\* lines 45, 51, 53: another datagram, then time.sleep(0.1): a tenth of the
\* timeout's unit, which takes the clock to its next tick or not
RecvOther ==
    /\ dpc = "recv"
    /\ polls < MaxPolls
    /\ polls' = polls + 1
    /\ recvlog' = Append(recvlog, Received("other", None))
    /\ now' \in {now, now + 1}
    /\ dpc' = "poll"
    /\ UNCHANGED <<callVars, error, timeout, sock, sent, end_time, ip, commands,
                   streamVars, groupVars>>

\* ---------------------------------------------------------------- discover
\* lines 62-63; the frame of _discover_ip is gone
AssertIp ==
    /\ dpc = "assert"
    /\ IF ip # None
       THEN dpc' = "query" /\ error' = error
       ELSE dpc' = "raised" /\ error' = "AssertionError"
    /\ recvlog' = <<>>
    /\ UNCHANGED <<callVars, timeout, now, sock, sent, end_time, polls, ip, commands,
                   streamVars, groupVars>>

\* lines 111-119: the command is sent and answered; tokenize() is lazy
SendCommand ==
    /\ dpc = "query"
    /\ commands' = commands + 1
    /\ dpc' = "topology"
    /\ UNCHANGED <<callVars, recvlog, error, timeout, now, sock, sent, end_time, polls, ip,
                   streamVars, groupVars>>

\* the command fails in upnp.send_command (transport error or SOAP fault)
SendCommandFails ==
    /\ dpc = "query"
    /\ commands' = commands + 1
    /\ error' = "UPnPError"
    /\ dpc' = "raised"
    /\ UNCHANGED <<callVars, recvlog, timeout, now, sock, sent, end_time, polls, ip,
                   streamVars, groupVars>>

\* ------------------------------------------- query_zone_group_topology
\* next(tokens) yields t.  The input says what the stream is:
\*   "tokens"    any tokens, at most MaxTokens of them
\*   "document"  a well-formed topology document, whole or cut short, of at
\*               most MaxDocTokens tokens
\*   "member"    the tokens of pending, in their order: one ZoneGroup with a
\*               member whose attributes are in some order.  The twin has read
\*               the same stream with that member's attributes in the order
\*               UUID, ZoneName, Location.
\* xmltok yields the attributes of an element right after its start-tag.
Yields(t) ==
    /\ t.type = "ATTR" => scan.token.type \in {"START_TAG", "ATTR"}
    /\ pulled' = pulled + 1
    /\ hist' = HistToken(hist, t)
    /\ IF input = "member"
       THEN /\ pending # <<>>
            /\ t = Head(pending)
            /\ pending' = Tail(pending)
            /\ twin' = twin
       ELSE /\ pulled < (IF input = "document" THEN MaxDocTokens ELSE MaxTokens)
            /\ t = StartZoneGroup => hist.startTags < MaxGroups
            /\ input = "document" => HistToken(hist, t).ok
            /\ pending' = pending
            /\ twin' = ScanToken(twin, t)

\* next(tokens) raises StopIteration
Exhausted ==
    /\ pending = <<>>
    /\ ~hist.ended
    /\ hist' = [hist EXCEPT !.ended = TRUE]
    /\ twin' = IF Running(twin) THEN StopIteration(twin) ELSE twin
    /\ UNCHANGED <<pending, pulled>>

\* line 124
NextFirst ==
    /\ dpc = "topology" /\ scan.pc = "first"
    /\ \/ \E t \in Tokens : Yields(t) /\ scan' = FirstToken(scan, t)
       \/ Exhausted /\ scan' = StopIteration(scan)
    /\ UNCHANGED <<callVars, dpc, error, discoveryVars, groupVars>>

\* lines 128-132
SeekGroup ==
    /\ dpc = "topology" /\ scan.pc = "seek_group"
    /\ \/ \E t \in Tokens : Yields(t) /\ scan' = SeekGroupToken(scan, t)
       \/ Exhausted /\ scan' = StopIteration(scan)
    /\ UNCHANGED <<callVars, dpc, error, discoveryVars, groupVars>>

\* lines 134-136
SeekCoordinator ==
    /\ dpc = "topology" /\ scan.pc = "seek_coordinator"
    /\ \/ \E t \in Tokens : Yields(t) /\ scan' = SeekCoordinatorToken(scan, t)
       \/ Exhausted /\ scan' = StopIteration(scan)
    /\ UNCHANGED <<callVars, dpc, error, discoveryVars, groupVars>>

\* lines 138-146, 163-167
ScanMembers ==
    /\ dpc = "topology" /\ scan.pc = "scan_members"
    /\ \/ \E t \in Tokens : Yields(t) /\ scan' = ScanMembersToken(scan, t)
       \/ Exhausted /\ scan' = StopIteration(scan)
    /\ UNCHANGED <<callVars, dpc, error, discoveryVars, groupVars>>

\* lines 147-161
CollectAttrs ==
    /\ dpc = "topology" /\ scan.pc = "collect_attrs"
    /\ \/ \E t \in Tokens : Yields(t) /\ scan' = CollectAttrsToken(scan, t)
       \/ Exhausted /\ scan' = StopIteration(scan)
    /\ UNCHANGED <<callVars, dpc, error, discoveryVars, groupVars>>

\* lines 169 and 65
ReturnTopology ==
    /\ dpc = "topology" /\ scan.pc = "returned"
    /\ topology' = scan.coordinators
    /\ dpc' = "for_group"
    /\ UNCHANGED <<callVars, error, discoveryVars, streamVars, gi, heap, players,
                   coordinator, pi, yielded>>

\* An exception leaves query_zone_group_topology and the generator with it.
\* A StopIteration that leaves a generator's body ends the generator as if
\* exhausted (MicroPython, CPython before 3.7) or becomes a RuntimeError
\* (CPython from 3.7 on).
TopologyRaises ==
    /\ dpc = "topology" /\ scan.pc = "raised"
    /\ \/ /\ scan.error = "StopIteration"
          /\ \/ dpc' = "raised" /\ error' = "RuntimeError"
             \/ dpc' = "exhausted" /\ error' = error
       \/ /\ scan.error # "StopIteration"
          /\ dpc' = "raised" /\ error' = scan.error
    /\ UNCHANGED <<callVars, discoveryVars, streamVars, groupVars>>

\* ---------------------------------------------------------------- discover
\* sonos.Sonos.__init__
Sonos(uuid, addr, name) ==
    [uuid |-> uuid, ip |-> addr, name |-> name, other_players |-> <<>>]

\* sonos.Sonos.add_player_to_group
add_player_to_group(self, player) ==
    [self EXCEPT !.other_players = Append(@, player)]

Group == topology[gi]

\* line 66 with no group left: the generator is exhausted
ForGroupDone ==
    /\ dpc = "for_group"
    /\ gi = Len(topology)
    /\ dpc' = "exhausted"
    /\ UNCHANGED <<callVars, error, discoveryVars, streamVars, groupVars>>

\* lines 66-71: the next group; one new Sonos object per player of the group
ForGroup ==
    /\ dpc = "for_group"
    /\ gi < Len(topology)
    /\ gi' = gi + 1
    /\ LET group == topology[gi + 1]
           n == Len(group.players)
       IN  /\ heap' = heap \o [k \in 1..n |->
                         Sonos(group.players[k].uuid, group.players[k].ip,
                               group.players[k].name)]
           /\ players' = [k \in 1..n |->
                             [uuid |-> group.players[k].uuid, id |-> Len(heap) + k]]
    /\ dpc' = "coordinator"
    /\ UNCHANGED <<callVars, error, discoveryVars, streamVars, topology, coordinator, pi,
                   yielded>>

\* line 72: players[coordinator_uuid], a KeyError when the key is missing
LookupCoordinator ==
    /\ dpc = "coordinator"
    /\ IF \E k \in 1..Len(players) : players[k].uuid = Group.coordinator_uuid
       THEN /\ coordinator' =
                  players[CHOOSE k \in 1..Len(players) :
                              players[k].uuid = Group.coordinator_uuid].id
            /\ pi' = 0
            /\ dpc' = "add_players"
            /\ error' = error
       ELSE /\ dpc' = "raised"
            /\ error' = "KeyError"
            /\ UNCHANGED <<callVars, coordinator, pi>>
    /\ UNCHANGED <<callVars, discoveryVars, streamVars, topology, gi, heap, players, yielded>>

\* a plausible slip: other_players is one list shared by every Sonos object
\* (a class attribute instead of the assignment of sonos.py line 72)
AddPlayerSharedList ==
    /\ dpc = "add_players"
    /\ pi < Len(players)
    /\ pi' = pi + 1
    /\ heap' = IF players[pi + 1].uuid # Group.coordinator_uuid
               THEN [k \in 1..Len(heap) |->
                        add_player_to_group(heap[k], players[pi + 1].id)]
               ELSE heap
    /\ UNCHANGED <<callVars, dpc, error, discoveryVars, streamVars, topology, gi, players,
                   coordinator, yielded>>

\* lines 73-75: one turn of the loop over players.items()
AddPlayer ==
    /\ dpc = "add_players"
    /\ pi < Len(players)
    /\ pi' = pi + 1
    /\ heap' = IF players[pi + 1].uuid # Group.coordinator_uuid
               THEN [heap EXCEPT ![coordinator] =
                        add_player_to_group(@, players[pi + 1].id)]
               ELSE heap
    /\ UNCHANGED <<callVars, dpc, error, discoveryVars, streamVars, topology, gi, players,
                   coordinator, yielded>>

\* a plausible slip: the yield sits before the loop of line 73
YieldCoordinatorEarly ==
    /\ dpc = "add_players"
    /\ yielded' = Append(yielded, coordinator)
    /\ dpc' = "suspended"
    /\ UNCHANGED <<callVars, error, discoveryVars, streamVars, topology, gi, heap, players,
                   coordinator, pi>>

\* line 76: the loop of line 73 is over; the coordinator goes to the caller
YieldCoordinator ==
    /\ dpc = "add_players"
    /\ pi = Len(players)
    /\ yielded' = Append(yielded, coordinator)
    /\ dpc' = "suspended"
    /\ UNCHANGED <<callVars, error, discoveryVars, streamVars, topology, gi, heap, players,
                   coordinator, pi>>

Next ==
    \/ CallerNext
    \/ OpenSocket
    \/ SendSearch
    \/ ReadStartTime
    \/ Tick
    \/ CheckDeadline
    \/ RecvNoData
    \/ RecvSocketError
    \/ RecvMarker
    \/ RecvOther
    \/ AssertIp
    \/ SendCommand
    \/ SendCommandFails
    \/ NextFirst
    \/ SeekGroup
    \/ SeekCoordinator
    \/ ScanMembers
    \/ CollectAttrs
    \/ ReturnTopology
    \/ TopologyRaises
    \/ ForGroupDone
    \/ ForGroup
    \/ LookupCoordinator
    \/ AddPlayer
    \/ YieldCoordinator

Spec == Init /\ [][Next]_vars

\* query_zone_group_topology called on its own
InitTopology ==
    /\ dpc = "topology"
    /\ timeout = 0
    /\ now = 0
    /\ sock = "unbound"
    /\ sent = 0
    /\ end_time = 0
    /\ polls = 0
    /\ ip = Ip1
    /\ error = None
    /\ commands = 1
    /\ scan = InitScan
    /\ twin = InitScan
    /\ pending = <<>>
    /\ pulled = 0
    /\ hist = InitHist
    /\ topology = <<>>
    /\ gi = 0
    /\ heap = <<>>
    /\ players = <<>>
    /\ coordinator = 0
    /\ pi = 0
    /\ yielded = <<>>
    /\ input = "tokens"
    /\ location = None
    /\ location_ip = None
    /\ recvlog = <<>>
    /\ track = NoTrack
    /\ meta = InitMetaHist
    /\ response = NoResponse
    /\ arguments = None

NextTopology ==
    \/ NextFirst
    \/ SeekGroup
    \/ SeekCoordinator
    \/ ScanMembers
    \/ CollectAttrs

SpecTopology == InitTopology /\ [][NextTopology]_vars

\* query_zone_group_topology called on its own, on one ZoneGroup with a
\* member whose three attributes come in any order
MemberTails ==
    {<<>>, <<EndZoneGroup>>, <<EndMember, EndZoneGroup>>,
     <<AttrID, EndZoneGroup, StartRoot>>}

InitMember ==
    /\ dpc = "topology"
    /\ timeout = 0
    /\ now = 0
    /\ sock = "unbound"
    /\ sent = 0
    /\ end_time = 0
    /\ polls = 0
    /\ ip = Ip1
    /\ error = None
    /\ commands = 1
    /\ scan = InitScan
    /\ \E c \in UUIDs, u \in UUIDs, n \in ZoneNames, l \in Locations,
          p \in Perms, tail \in MemberTails,
          before \in {<<>>} \cup
                     {<<StartMember>> \o MemberAttrTokens(v, <<"K">>, LocGood) :
                         v \in UUIDs} :
          LET head == <<StartZoneGroup, AttrCoordinator(c)>> \o before
                          \o <<StartMember>>
              attrs == MemberAttrTokens(u, n, l)
          IN  /\ pending = head \o Permuted(attrs, p) \o tail
              /\ twin = ScanTokens(InitScan, head \o attrs \o tail)
              /\ hist = [InitHist EXCEPT !.permuted = (p # Identity)]
    /\ pulled = 0
    /\ topology = <<>>
    /\ gi = 0
    /\ heap = <<>>
    /\ players = <<>>
    /\ coordinator = 0
    /\ pi = 0
    /\ yielded = <<>>
    /\ input = "member"
    /\ location = None
    /\ location_ip = None
    /\ recvlog = <<>>
    /\ track = NoTrack
    /\ meta = InitMetaHist
    /\ response = NoResponse
    /\ arguments = None

SpecMember == InitMember /\ [][NextTopology]_vars

\* _zone_group_topology_location_to_ip called on its own
LocationChars == {"1", ":", "/"}
LocationPrefixes ==
    {scheme_prefix,
     <<"h", "t", "t", "p", "s", ":", "/", "/">>,
     <<"h", "t", "t", "p", ":", "/">>,
     <<>>}
LocationInputs ==
    {prefix \o tail :
        prefix \in LocationPrefixes,
        tail \in UNION {[1..k -> LocationChars] : k \in 0..MaxLocationTail}}

InitLocation ==
    /\ dpc = "location"
    /\ timeout = 0
    /\ now = 0
    /\ sock = "unbound"
    /\ sent = 0
    /\ end_time = 0
    /\ polls = 0
    /\ ip = None
    /\ error = None
    /\ commands = 0
    /\ scan = InitScan
    /\ twin = InitScan
    /\ pending = <<>>
    /\ pulled = 0
    /\ hist = InitHist
    /\ topology = <<>>
    /\ gi = 0
    /\ heap = <<>>
    /\ players = <<>>
    /\ coordinator = 0
    /\ pi = 0
    /\ yielded = <<>>
    /\ input = "tokens"
    /\ location \in LocationInputs
    /\ location_ip = None
    /\ recvlog = <<>>
    /\ track = NoTrack
    /\ meta = InitMetaHist
    /\ response = NoResponse
    /\ arguments = None

\* lines 79-89
CallLocationToIp ==
    /\ dpc = "location"
    /\ location_ip' = _zone_group_topology_location_to_ip(location)
    /\ dpc' = "location_done"
    /\ UNCHANGED <<input, location, track, meta, response, arguments, error,
                   discoveryVars, streamVars, groupVars>>

NextLocation == CallLocationToIp

SpecLocation == InitLocation /\ [][NextLocation]_vars

\* ------------------------------------------------------- sonos.TrackInfo
\* TrackInfo(metadata, total_time, current_time) called on its own, and
\* repr() of the object it returns.  next(tokens) yields t: any token of the
\* metadata alphabet, at most MaxMetaTokens of them; xmltok yields an ATTR
\* token only after a START_TAG or ATTR token and never two TEXT tokens in a row.
MetaYields(t) ==
    /\ meta.count < MaxMetaTokens
    /\ t.type = "ATTR" => track.token.type \in {"START_TAG", "ATTR"}
    /\ t.type = "TEXT" => track.token.type # "TEXT"
    /\ meta' = MetaHistToken(meta, t)

\* next(tokens) raises StopIteration
MetaExhausted ==
    /\ ~meta.ended
    /\ meta' = MetaHistEnd(meta)

\* lines 21-24
TrackInfoInit ==
    /\ dpc = "track" /\ track.pc = "init"
    /\ track' = TrackInit(track)
    /\ UNCHANGED <<dpc, error, input, location, location_ip, meta, response,
                   arguments, discoveryVars, streamVars, groupVars>>

\* line 34
ParseMetadataFirst ==
    /\ dpc = "track" /\ track.pc = "first"
    /\ \/ \E t \in MetaTokens : MetaYields(t) /\ track' = TrackNextToken(track, t)
       \/ MetaExhausted /\ track' = TrackStopIteration(track)
    /\ UNCHANGED <<dpc, error, input, location, location_ip, response,
                   arguments, discoveryVars, streamVars, groupVars>>

\* lines 41-43
ParseMetadataText ==
    /\ dpc = "track" /\ track.pc = "text"
    /\ \/ \E t \in MetaTokens : MetaYields(t) /\ track' = TrackTextToken(track, t)
       \/ MetaExhausted /\ track' = TrackStopIteration(track)
    /\ UNCHANGED <<dpc, error, input, location, location_ip, response,
                   arguments, discoveryVars, streamVars, groupVars>>

\* lines 44-47, then lines 36-38
ParseMetadataNext ==
    /\ dpc = "track" /\ track.pc = "next"
    /\ \/ \E t \in MetaTokens : MetaYields(t) /\ track' = TrackNextToken(track, t)
       \/ MetaExhausted /\ track' = TrackStopIteration(track)
    /\ UNCHANGED <<dpc, error, input, location, location_ip, response,
                   arguments, discoveryVars, streamVars, groupVars>>

\* lines 49-54: the caller formats the object (sonos.py line 233)
TrackInfoRepr ==
    /\ dpc = "track" /\ track.pc = "done" /\ track.repr = None
    /\ track' = [track EXCEPT !.repr = ReprOf(track.self)]
    /\ UNCHANGED <<dpc, error, input, location, location_ip, meta, response,
                   arguments, discoveryVars, streamVars, groupVars>>

InitTrackInfo ==
    /\ dpc = "track"
    /\ timeout = 0
    /\ now = 0
    /\ sock = "unbound"
    /\ sent = 0
    /\ end_time = 0
    /\ polls = 0
    /\ ip = None
    /\ error = None
    /\ commands = 0
    /\ scan = InitScan
    /\ twin = InitScan
    /\ pending = <<>>
    /\ pulled = 0
    /\ hist = InitHist
    /\ topology = <<>>
    /\ gi = 0
    /\ heap = <<>>
    /\ players = <<>>
    /\ coordinator = 0
    /\ pi = 0
    /\ yielded = <<>>
    /\ input = "tokens"
    /\ location = None
    /\ location_ip = None
    /\ recvlog = <<>>
    /\ \E total_time \in Durations, current_time \in Durations :
          track = InitTrack(total_time, current_time)
    /\ meta = InitMetaHist
    /\ response = NoResponse
    /\ arguments = None

NextTrackInfo ==
    \/ TrackInfoInit
    \/ ParseMetadataFirst
    \/ ParseMetadataText
    \/ ParseMetadataNext
    \/ TrackInfoRepr

SpecTrackInfo == InitTrackInfo /\ [][NextTrackInfo]_vars

\* ------------------------------------------------- parse_upnp_response
\* parse_upnp_response called on its own, as test_sonos.py calls it
ArgLists == UNION {[1..k -> Arguments] : k \in 0..MaxArgs}

Prefixes(tokens) == {SubSeq(tokens, 1, k) : k \in 0..Len(tokens)}

InitUpnp ==
    /\ dpc = "upnp"
    /\ timeout = 0
    /\ now = 0
    /\ sock = "unbound"
    /\ sent = 0
    /\ end_time = 0
    /\ polls = 0
    /\ ip = None
    /\ error = None
    /\ commands = 0
    /\ scan = InitScan
    /\ twin = InitScan
    /\ pending = <<>>
    /\ pulled = 0
    /\ hist = InitHist
    /\ topology = <<>>
    /\ gi = 0
    /\ heap = <<>>
    /\ players = <<>>
    /\ coordinator = 0
    /\ pi = 0
    /\ yielded = <<>>
    /\ input = "tokens"
    /\ location = None
    /\ location_ip = None
    /\ recvlog = <<>>
    /\ track = NoTrack
    /\ meta = InitMetaHist
    /\ \E a \in Actions :
          \/ \E args \in ArgLists :
                \E ts \in Prefixes(SoapResponse(a, args)) :
                    response = [action |-> a, args |-> args,
                                body |-> "response", tokens |-> ts]
          \/ \E ts \in Prefixes(SoapFault) :
                response = [action |-> a, args |-> <<>>, body |-> "fault",
                            tokens |-> ts]
    /\ arguments = None

CallParseUpnpResponse ==
    /\ dpc = "upnp"
    /\ arguments' = parse_upnp_response(response.action, response.tokens)
    /\ dpc' = "upnp_done"
    /\ UNCHANGED <<input, location, location_ip, track, meta, response, error,
                   discoveryVars, streamVars, groupVars>>

NextUpnp == CallParseUpnpResponse

SpecUpnp == InitUpnp /\ [][NextUpnp]_vars

\* ------------------------------------------------- discover, lines 66-76
\* The loop of discover over a topology that query_zone_group_topology has
\* returned: up to MaxGroups groups, each with a coordinator_uuid and a
\* players dict of distinct UUIDs in some order.
PlayerOf(u) == [uuid |-> u, name |-> <<"K">>, ip |-> <<"1">>]
PlayersDicts ==
    {<<>>, <<PlayerOf(UuidA)>>, <<PlayerOf(UuidB)>>,
     <<PlayerOf(UuidA), PlayerOf(UuidB)>>, <<PlayerOf(UuidB), PlayerOf(UuidA)>>}
GroupsOf ==
    {[coordinator_uuid |-> c, players |-> d] : c \in UUIDs, d \in PlayersDicts}
Topologies == UNION {[1..k -> GroupsOf] : k \in 0..MaxGroups}

InitGroups ==
    /\ dpc = "for_group"
    /\ timeout = 0
    /\ now = 0
    /\ sock = "open"
    /\ sent = SearchSends
    /\ end_time = 0
    /\ polls = 0
    /\ ip = Ip1
    /\ error = None
    /\ commands = 1
    /\ topology \in Topologies
    /\ scan = [InitScan EXCEPT !.pc = "returned", !.coordinators = topology]
    /\ twin = InitScan
    /\ pending = <<>>
    /\ pulled = 0
    /\ hist = InitHist
    /\ gi = 0
    /\ heap = <<>>
    /\ players = <<>>
    /\ coordinator = 0
    /\ pi = 0
    /\ yielded = <<>>
    /\ input = "tokens"
    /\ location = None
    /\ location_ip = None
    /\ recvlog = <<>>
    /\ track = NoTrack
    /\ meta = InitMetaHist
    /\ response = NoResponse
    /\ arguments = None

NextGroups ==
    \/ CallerNext
    \/ ForGroupDone
    \/ ForGroup
    \/ LookupCoordinator
    \/ AddPlayer
    \/ YieldCoordinator

SpecGroups == InitGroups /\ [][NextGroups]_vars

\* ------------------------------------------------------------ properties
Returned == scan.pc = "returned"
Raised == scan.pc = "raised"

\* the keys of a returned group's players, in insertion order
PlayerUUIDs(group) == [k \in 1..Len(group.players) |-> group.players[k].uuid]

\* the stream was a whole well-formed topology document
WholeDocument == hist.ended /\ hist.ok /\ hist.st = "top" /\ pulled > 0

\* C1: for a well-formed topology document with N complete ZoneGroup
\* elements (Coordinator attribute; members with UUID, ZoneName and an
\* http:// Location; UUIDs distinct) query_zone_group_topology returns
\* exactly N groups in document order, the i-th with exactly one players
\* entry per member of the i-th ZoneGroup.
C1_GroupsAndMembersOfDocument ==
    WholeDocument =>
        /\ Returned
        /\ Len(scan.coordinators) = Len(hist.groups)
        /\ \A i \in 1..Len(hist.groups) :
              i <= Len(scan.coordinators)
                  => PlayerUUIDs(scan.coordinators[i]) = hist.groups[i]

\* C2: a stream that ends after a ZoneGroup start-tag with no ZoneGroup
\* end-tag after it makes query_zone_group_topology raise, never return; and
\* a group is in the result only once its ZoneGroup end-tag was consumed.
C2_TruncatedGroupRaises ==
    /\ (hist.ended /\ hist.inGroup) => Raised
    /\ Returned => ~hist.inGroup
    /\ Len(scan.coordinators) <= hist.endTags

C2_Witness ==
    /\ input = "tokens"
    /\ hist.ended /\ hist.inGroup /\ Raised
    /\ Len(scan.coordinators) = 1
    /\ scan.players # <<>>

\* C3: in every group query_zone_group_topology returns, coordinator_uuid is
\* a key of the group's players.
C3_CoordinatorIsKey ==
    Returned =>
        \A i \in 1..Len(scan.coordinators) :
            scan.coordinators[i].coordinator_uuid
                \in DictKeys(scan.coordinators[i].players)

\* C4: when a ZoneGroupMember start-tag is followed by the enclosing
\* ZoneGroup end-tag or by the next ZoneGroupMember start-tag before UUID,
\* ZoneName and Location have all been seen for it,
\* query_zone_group_topology raises instead of returning a result.
C4_CutMemberRaises == hist.memberCut => ~Returned

\* C5: when a ZoneGroup start-tag is not followed by a Coordinator attribute
\* before that group's end-tag, query_zone_group_topology raises instead of
\* returning a result.
C5_GroupWithoutCoordinatorRaises == hist.groupNoCoord => ~Returned

\* C6: every order of a member's UUID, ZoneName and Location attributes
\* gives the result of the order UUID, ZoneName, Location: the same return or
\* exception, the same groups, the same players entries with the same uuid,
\* name and ip.
Outcome(s) == [pc |-> s.pc, error |-> s.error, coordinators |-> s.coordinators]

HasPrefix == StartsWith(location, scheme_prefix)
AfterPrefix == SubSeq(location, Len(scheme_prefix) + 1, Len(location))
Colons == {i \in 1..Len(AfterPrefix) : AfterPrefix[i] = ":"}

C7_HostBeforeNextColon ==
    dpc = "location_done" =>
        IF HasPrefix
        THEN \E i \in Colons :
                /\ \A j \in Colons : i <= j
                /\ location_ip = SubSeq(AfterPrefix, 1, i - 1)
        ELSE location_ip = AssertionError

\* C7 amended: for a Location that starts with 'http://' and has a colon
\* after that prefix the result is the text between the prefix and the first
\* such colon; with no colon after the prefix the result is the text after
\* the prefix less its last character; every other Location fails.
C7_HostBeforeColonIfAny ==
    dpc = "location_done" =>
        IF ~HasPrefix THEN location_ip = AssertionError
        ELSE IF Colons # {}
        THEN \E i \in Colons :
                /\ \A j \in Colons : i <= j
                /\ location_ip = SubSeq(AfterPrefix, 1, i - 1)
        ELSE location_ip = SubSeq(AfterPrefix, 1, Len(AfterPrefix) - 1)

C7_Witness ==
    /\ dpc = "location_done"
    /\ HasPrefix
    /\ Cardinality(Colons) = 2
    /\ location_ip = <<"1">>

\* C8: when _discover_ip ends at its deadline with no datagram that holds
\* the marker (with a timeout of 0 before any recvfrom), discover raises the
\* AssertionError of line 63, having issued no GetZoneGroupState command and
\* yielded no Sonos object.
InDiscoverIp == dpc \in {"socket", "sendto", "poll", "recv"}

C8_NoMarkerTimesOut ==
    /\ timeout = 0 => polls = 0 /\ dpc # "recv" /\ ip = None
    /\ (ip = None /\ dpc # "created" /\ ~InDiscoverIp) =>
          /\ dpc \in {"assert", "raised"}
          /\ commands = 0
          /\ yielded = <<>>
          /\ dpc = "raised" => error \in {"AssertionError", "OSError"}
    /\ (dpc = "raised" /\ error = "AssertionError" /\ commands = 0) =>
          ip = None /\ now >= end_time

C8_Witness ==
    /\ dpc = "raised" /\ error = "AssertionError"
    /\ timeout = 0 /\ sent = SearchSends /\ commands = 0

\* C9: discover yields exactly one Sonos object per group of the topology,
\* in topology order: the object of the group's coordinator, whose
\* other_players holds every other member of the group exactly once, in
\* the order of the group's players, and nothing else.
OtherMembers(group) ==
    LET keep(k) == group.players[k].uuid # group.coordinator_uuid
        F[k \in 0..Len(group.players)] ==
            IF k = 0 THEN <<>>
            ELSE IF keep(k) THEN Append(F[k - 1], group.players[k].uuid)
            ELSE F[k - 1]
    IN  F[Len(group.players)]

HandleOf(i) == heap[yielded[i]]

HandleIsGroup(i) ==
    /\ HandleOf(i).uuid = topology[i].coordinator_uuid
    /\ [k \in 1..Len(HandleOf(i).other_players) |->
           heap[HandleOf(i).other_players[k]].uuid] = OtherMembers(topology[i])

C9_OneHandlePerGroup ==
    (Returned /\ dpc \in {"exhausted", "raised"}) =>
        /\ dpc = "exhausted"
        /\ Len(yielded) = Len(topology)
        /\ \A i \in 1..Len(yielded) : HandleIsGroup(i)

\* C10 as stated: the topology query is sent only after a device IP has been
\* found, the construction of a group's Sonos objects starts only after
\* query_zone_group_topology has returned, and no Sonos object is handed to
\* the caller while the construction of the groups is still outstanding.
QueryAfterIp == commands > 0 => ip # None
ConstructionAfterParse ==
    (gi > 0 \/ heap # <<>> \/ dpc \in {"for_group", "coordinator", "add_players"})
        => (Returned /\ topology = scan.coordinators)

C10_NoStreaming ==
    /\ QueryAfterIp
    /\ ConstructionAfterParse
    /\ yielded # <<>> => (gi = Len(topology) /\ dpc \in {"suspended", "for_group", "exhausted"})

\* C10 amended: the topology query is sent only after a device IP has been
\* found, the construction of a group's Sonos objects starts only after
\* query_zone_group_topology has returned, and a group's coordinator is
\* handed to the caller only after the construction of that group is
\* complete; the groups are handed over one at a time, each before the
\* construction of the next one starts.
C10_QueryThenParseThenGroups ==
    /\ QueryAfterIp
    /\ ConstructionAfterParse
    /\ \A i \in 1..Len(yielded) : HandleIsGroup(i)
    /\ Len(yielded) \in {gi - 1, gi}
    /\ dpc = "suspended" => Len(yielded) = gi

C10_Witness ==
    /\ dpc = "suspended"
    /\ Len(yielded) = 1
    /\ Len(topology) = 2
    /\ heap[yielded[1]].other_players # <<>>

\* C11: for a metadata stream in which every recognized start-tag
\* (dc:creator, upnp:album, dc:title) is immediately followed by a text token,
\* TrackInfo returns an object whose artist, album and title are the texts
\* that followed the corresponding tags, with no attribute for a tag that
\* does not occur, and whose total_time and current_time are the arguments.
MetaFields == {"artist", "album", "title"}
LeafMetadata == meta.ended /\ meta.leaf /\ ~meta.cut /\ meta.count > 0

C11_FieldsAreTextsAfterTags ==
    LeafMetadata =>
        /\ track.pc = "done"
        /\ \A f \in MetaFields :
              /\ track.self[f] = meta.text[f]
              /\ f \notin meta.occurs => track.self[f] = Absent
        /\ track.self.total_time = track.total_time
        /\ track.self.current_time = track.current_time

C11_Witness ==
    /\ LeafMetadata
    /\ track.pc = "done"
    /\ track.self.title = "Song A"
    /\ track.self.artist = "Artist B"
    /\ track.self.album = Absent
    /\ track.self.total_time = "0:03:30"
    /\ track.self.current_time = "0:01:02"

\* C12: when a recognized start-tag is followed by a token that is no text
\* token, TrackInfo raises (the AssertionError of line 42) and the token is
\* not assigned: the attributes set so far are texts that followed their tags.
C12_NonTextAfterTagRaises ==
    ~meta.leaf =>
        /\ track.pc = "raised"
        /\ track.error = "AssertionError"
        /\ \A f \in MetaFields : track.self[f] = meta.text[f]

C12_Witness ==
    /\ ~meta.leaf
    /\ track.pc = "raised"
    /\ track.token = EndTitle
    /\ track.self.title = Absent
    /\ track.self.artist = "Artist B"

\* C13: when the metadata has no dc:title element (and every recognized
\* start-tag in it is followed by a text token), TrackInfo returns the object
\* with no title and the object is usable: formatting it does not raise.
C13_NoTitleIsUsable ==
    (LeafMetadata /\ "title" \notin meta.occurs) =>
        /\ track.pc = "done"
        /\ track.self.title = Absent
        /\ track.repr # AttributeError

\* C14: decoding the whole SOAP response of an action returns exactly the
\* (name, value) pairs of the children of the action's Response element, in
\* document order, repeated names kept, an empty element with the empty
\* value; a response with no argument gives the empty list.
WholeResponse ==
    /\ response.body = "response"
    /\ response.tokens = SoapResponse(response.action, response.args)

C14_DecodeReturnsArguments ==
    (dpc = "upnp_done" /\ WholeResponse) =>
        /\ arguments.status = "ok"
        /\ arguments.arguments = response.args

C14_Witness ==
    /\ dpc = "upnp_done" /\ WholeResponse
    /\ Len(response.args) = 2
    /\ response.args[1][1] = response.args[2][1]
    /\ response.args[1][2] # response.args[2][2]
    /\ arguments.arguments = response.args

\* C15: in the polling loop of _discover_ip the first datagram that holds
\* the marker ends the search and its sender's IP is what _discover_ip
\* returns; a datagram without the marker is ignored: the loop goes on to
\* its next deadline test and recvfrom, and returns an IP only for a marker.
LastRecv == recvlog[Len(recvlog)]
StillPolling ==
    /\ ip = None
    /\ dpc \in {"poll", "recv"} \/ (dpc = "assert" /\ now >= end_time)

C15_FirstMarkerEndsSearch ==
    /\ \A i \in 1..Len(recvlog) :
          recvlog[i].kind = "marker" =>
              i = Len(recvlog) /\ dpc = "assert" /\ ip = recvlog[i].ip
    /\ (recvlog # <<>> /\ LastRecv.kind = "other") => StillPolling
    /\ (dpc = "assert" /\ ip # None) =>
          recvlog # <<>> /\ LastRecv.kind = "marker"

C15_Witness ==
    /\ dpc = "assert"
    /\ Len(recvlog) = 2
    /\ recvlog[1].kind = "other"
    /\ recvlog[2] = Received("marker", Ip2)
    /\ ip = Ip2

\* C16: a recvfrom that reports no data yet (ETIMEDOUT or EAGAIN) is no
\* error: the loop goes on to its next deadline test and recvfrom; any other
\* OSError of recvfrom leaves discover at once, with no later recvfrom, no
\* command sent and no Sonos object yielded.
C16_NoDataRetriedErrorsPropagate ==
    /\ (recvlog # <<>> /\ LastRecv.kind = "nodata") => StillPolling
    /\ \A i \in 1..Len(recvlog) :
          recvlog[i].kind = "error" =>
              i = Len(recvlog) /\ dpc = "raised" /\ error = "OSError"
    /\ (dpc = "raised" /\ commands = 0 /\ recvlog # <<>>) =>
          /\ LastRecv.kind = "error"
          /\ error = "OSError"
          /\ yielded = <<>>

C16_Witness ==
    /\ dpc = "raised" /\ error = "OSError"
    /\ Len(recvlog) = 2
    /\ recvlog[1].kind = "nodata"
    /\ recvlog[2].kind = "error"

\* C17: when _discover_ip has been left (an IP returned, the deadline
\* reached, a socket error raised) the socket it opened is closed.
C17_SocketClosedOnExit ==
    (dpc # "created" /\ ~InDiscoverIp) => sock = "closed"

\* C18: the end of the token stream while query_zone_group_topology seeks a
\* ZoneGroup start-tag is the normal end: a stream with no ZoneGroup
\* start-tag, the empty stream included, gives the empty result, and a
\* stream that ends after its last complete group gives the groups collected.
C18_ExhaustionIsNormalEnd ==
    /\ (hist.ended /\ hist.startTags = 0) =>
          Returned /\ scan.coordinators = <<>>
    /\ (hist.ended /\ hist.startTags = hist.endTags
                   /\ Len(scan.coordinators) = hist.endTags) => Returned

\* C19: a yielded Sonos object's other_players is filled before the object is
\* yielded (it holds the other members of its group when it is handed over)
\* and no later step of the same discover call changes it.
PeersOfYieldedKept ==
    \A i \in 1..Len(yielded) :
        heap'[yielded[i]].other_players = heap[yielded[i]].other_players

C19_PeersFixedOnceYielded ==
    /\ [](\A i \in 1..Len(yielded) : HandleIsGroup(i))
    /\ [][PeersOfYieldedKept]_vars

C19_Witness ==
    /\ Len(yielded) = 1
    /\ heap[yielded[1]].other_players # <<>>
    /\ dpc = "add_players" /\ gi = 2 /\ pi = Len(players)
    /\ heap[coordinator].other_players # <<>>

\* C20: query_zone_group_topology is one forward pass: every step of the
\* scan is one next(tokens), the token it binds is the one the stream has
\* just yielded, and when next(tokens) has raised StopIteration the scan is
\* over (returned or raised) whatever state it was in, with no further pull.
OnePullPerStep ==
    /\ scan' # scan =>
          \/ pulled' = pulled + 1 /\ hist' = HistToken(hist, scan'.token)
          \/ pulled' = pulled /\ ~hist.ended /\ hist'.ended
    /\ hist.ended => (pulled' = pulled /\ scan' = scan)

C20_SingleForwardPass ==
    /\ [](hist.ended => ~Running(scan))
    /\ [][OnePullPerStep]_vars

C20_Witness ==
    /\ hist.ended
    /\ Raised /\ scan.error = "StopIteration"
    /\ IsTag(scan.token, "ATTR", "UUID")
    /\ Len(scan.coordinators) = 1
    /\ pulled >= 7

=============================================================================
